---- MODULE Spec2Model ----
(***************************************************************************)
(* Model of src/app.py: one run of the bulk e-mail script.  The run reads  *)
(* the uploaded spreadsheet, loads the recipient records, takes the        *)
(* compose form, and on the send button opens one SMTP session and walks   *)
(* the recipient list.  Each blocking library call is one step.            *)
(***************************************************************************)
EXTENDS Integers, Sequences, FiniteSets, TLC

\* ------------------------------------------------------------------ bounds
MaxRows == 3

\* ------------------------------------------------------------------ values
\* pandas' missing cell
NaN == "<NaN>"

AllCols == {"Name", "Email", "Company"}

\* rows a spreadsheet may hold (all three columns filled in; a file keeps
\* only the columns it has)
SampleRows ==
    { [Name |-> "Ann", Email |-> "a@x", Company |-> "Acme"],
      [Name |-> NaN,   Email |-> "b@x", Company |-> NaN],
      [Name |-> "Cy",  Email |-> NaN,   Company |-> "Acme"] }

Restrict(f, S) == [c \in S |-> f[c]]

RowSeqs == UNION { [1..n -> SampleRows] : n \in 0..MaxRows }

\* an uploaded file as pandas reads it: its columns and its rows
Files ==
    { [cols |-> cs, rows |-> [k \in 1..Len(rs) |-> Restrict(rs[k], cs)]] :
        cs \in SUBSET AllCols, rs \in RowSeqs }

NoFile == [cols |-> {}, rows |-> <<>>, none |-> TRUE]

\* message templates, as the sequence of their literal pieces and
\* replacement fields
Templates ==
    { <<>>,
      <<" ">>,
      <<"Hi ", "{name}", " from ", "{company}">>,
      <<"Hello">>,
      <<"Hi ", "{name}", "{foo}">>,
      <<"{foo}", "{name}">>,
      <<"Hi ", "{0}">> }

NamedFields == {"{name}", "{company}", "{foo}"}
PositionalFields == {"{0}"}

\* ------------------------------------------------------------------ state
VARIABLES
    pc,               \* position of the script run
    uploaded_file,    \* value of the first file_uploader
    load_error,       \* st.error of line 28 was shown
    recipients,       \* the list built at lines 20-35
    sender_email, password, subject, message_template, uploaded_image,
    session,          \* the with-block of line 85
    sock,             \* the library's connection is alive
    authed,           \* server.login returned
    i,                \* 1-based index of the loop of line 94
    personalized_message,
    exc,              \* exception in flight
    attempts,         \* calls of server.sendmail, in order
    outcomes,         \* what each call did
    delivered,        \* messages the server accepted
    status_text,      \* last status_text.text
    progress,         \* last value given to the progress bar <<num, den>>
    errors,           \* st.error calls of the send pass, in order
    summary,          \* st.success of line 153: <<>> or <<count>>
    login_rejected,   \* server.login raised
    render_failed_at, \* index at which format raised, 0 if never
    dropped_at        \* index at which the connection was lost in sendmail

vars == << pc, uploaded_file, load_error, recipients, sender_email, password,
           subject, message_template, uploaded_image, session, sock, authed,
           i, personalized_message, exc, attempts, outcomes, delivered,
           status_text, progress, errors, summary, login_rejected,
           render_failed_at, dropped_at >>

formVars == << sender_email, password, subject, message_template,
               uploaded_image >>
loadVars == << uploaded_file, load_error, recipients >>
histVars == << attempts, outcomes, delivered, status_text >>

Init ==
    /\ pc = "upload"
    /\ uploaded_file = NoFile
    /\ load_error = FALSE
    /\ recipients = <<>>
    /\ sender_email = ""
    /\ password = ""
    /\ subject = ""
    /\ message_template = <<>>
    /\ uploaded_image = "None"
    /\ session = "NotStarted"
    /\ sock = FALSE
    /\ authed = FALSE
    /\ i = 0
    /\ personalized_message = <<>>
    /\ exc = "none"
    /\ attempts = <<>>
    /\ outcomes = <<>>
    /\ delivered = <<>>
    /\ status_text = <<>>
    /\ progress = <<>>
    /\ errors = <<>>
    /\ summary = <<>>
    /\ login_rejected = FALSE
    /\ render_failed_at = 0
    /\ dropped_at = 0

\* ------------------------------------------------------- recipient loader
required_cols == {"Name", "Email"}

ColumnsValid(df) == required_cols \subseteq df.cols

\* df["Company"] = "" when the column is absent
AddCompany(df) ==
    IF "Company" \in df.cols
    THEN df
    ELSE [cols |-> df.cols \cup {"Company"},
          rows |-> [k \in 1..Len(df.rows) |->
                      [c \in df.cols \cup {"Company"} |->
                          IF c = "Company" THEN "" ELSE df.rows[k][c]]]]

\* df[["Name", "Email", "Company"]]
Project(rows) ==
    [k \in 1..Len(rows) |->
        [Name |-> rows[k]["Name"], Email |-> rows[k]["Email"],
         Company |-> rows[k]["Company"]]]

\* dropna() without the subset: a row with any missing cell goes
RECURSIVE DropNa_AnyColumn(_)
DropNa_AnyColumn(rows) ==
    IF rows = <<>> THEN <<>>
    ELSE IF NaN \in {Head(rows).Name, Head(rows).Email, Head(rows).Company}
         THEN DropNa_AnyColumn(Tail(rows))
         ELSE <<Head(rows)>> \o DropNa_AnyColumn(Tail(rows))

\* .dropna(subset=["Email"])
RECURSIVE DropNaEmail(_)
DropNaEmail(rows) ==
    IF rows = <<>> THEN <<>>
    ELSE IF Head(rows).Email = NaN
         THEN DropNaEmail(Tail(rows))
         ELSE <<Head(rows)>> \o DropNaEmail(Tail(rows))

LoadRecords(df) == DropNaEmail(Project(AddCompany(df).rows))

\* the file_uploader of line 14
UploadFile ==
    /\ pc = "upload"
    /\ \E f \in Files \cup {NoFile} :
          /\ uploaded_file' = f
          /\ pc' = "load"
    /\ UNCHANGED << load_error, recipients, formVars, session, sock, authed,
                    i, personalized_message, exc, histVars, progress, errors,
                    summary, login_rejected, render_failed_at, dropped_at >>

\* a loader that reports the missing columns and loads the rows all the same
LoadRecipients_NoAbort ==
    /\ pc = "load"
    /\ LET df == uploaded_file
           filled == [cols |-> AllCols,
                      rows |-> [k \in 1..Len(df.rows) |->
                                  [c \in AllCols |->
                                     IF c \in df.cols THEN df.rows[k][c]
                                     ELSE "x"]]]
       IN  /\ load_error' = (df # NoFile /\ ~ColumnsValid(df))
           /\ recipients' = LoadRecords(filled)
    /\ pc' = IF recipients' # <<>> THEN "compose" ELSE "done"
    /\ UNCHANGED << uploaded_file, formVars, session, sock, authed, i,
                    personalized_message, exc, histVars, progress, errors,
                    summary, login_rejected, render_failed_at, dropped_at >>

\* lines 20-42
LoadRecipients ==
    /\ pc = "load"
    /\ IF uploaded_file = NoFile
       THEN /\ load_error' = FALSE
            /\ recipients' = <<>>
       ELSE IF ~ColumnsValid(uploaded_file)
       THEN /\ load_error' = TRUE
            /\ recipients' = <<>>
       ELSE /\ load_error' = FALSE
            /\ recipients' = LoadRecords(uploaded_file)
    /\ pc' = IF recipients' # <<>> THEN "compose" ELSE "done"
    /\ UNCHANGED << uploaded_file, formVars, session, sock, authed, i,
                    personalized_message, exc, histVars, progress, errors,
                    summary, login_rejected, render_failed_at, dropped_at >>

\* ------------------------------------------------------------ compose form
Senders == {"", "me@x"}
Passwords == {"", "pw"}
Subjects == {"", " ", "Hello"}
Images == {"None", "banner.png"}

\* str.strip() of a form field
Strip(s) == IF s = " " THEN "" ELSE s

\* message_template.strip(): what is left of a template of blanks is empty
StripTemplate(t) == SelectSeq(t, LAMBDA tok : Strip(tok) # "")

\* lines 74-79
send_disabled ==
    ~ (/\ Strip(sender_email) # ""
       /\ Strip(password) # ""
       /\ Strip(subject) # ""
       /\ StripTemplate(message_template) # <<>>)

\* lines 43-70: the widgets of step 2
Compose ==
    /\ pc = "compose"
    /\ recipients # <<>>
    /\ sender_email' \in Senders
    /\ password' \in Passwords
    /\ subject' \in Subjects
    /\ message_template' \in Templates
    /\ uploaded_image' \in Images
    /\ pc' = "button"
    /\ UNCHANGED << loadVars, session, sock, authed, i, personalized_message,
                    exc, histVars, progress, errors, summary, login_rejected,
                    render_failed_at, dropped_at >>

\* line 81: the button is pressed
ClickSend ==
    /\ pc = "button"
    /\ ~send_disabled
    /\ pc' = "connect"
    /\ UNCHANGED << loadVars, formVars, session, sock, authed, i,
                    personalized_message, exc, histVars, progress, errors,
                    summary, login_rejected, render_failed_at, dropped_at >>

\* ---------------------------------------------------------------- session
\* line 85: smtplib.SMTP(host, port) connects, or raises before the
\* with-block is entered
Connect ==
    /\ pc = "connect"
    /\ \E ok \in BOOLEAN :
          IF ok
          THEN /\ session' = "SessionOpen"
               /\ sock' = TRUE
               /\ exc' = "none"
               /\ pc' = "starttls"
          ELSE /\ exc' = "OSError"
               /\ pc' = "except"
               /\ UNCHANGED << session, sock >>
    /\ UNCHANGED << loadVars, formVars, authed, i, personalized_message,
                    histVars, progress, errors, summary, login_rejected,
                    render_failed_at, dropped_at >>

\* line 86
StartTls ==
    /\ pc = "starttls"
    /\ \E ok \in BOOLEAN :
          IF ok
          THEN /\ pc' = "login"
               /\ exc' = "none"
          ELSE /\ pc' = "exit"
               /\ exc' = "SMTPException"
    /\ UNCHANGED << loadVars, formVars, session, sock, authed, i,
                    personalized_message, histVars, progress, errors, summary,
                    login_rejected, render_failed_at, dropped_at >>

\* a login whose rejection is swallowed: the loop starts all the same
Login_IgnoreRejection ==
    /\ pc = "login"
    /\ \E ok \in BOOLEAN :
          /\ authed' = ok
          /\ login_rejected' = ~ok
    /\ progress' = <<0, Len(recipients)>>
    /\ i' = 1
    /\ pc' = "render"
    /\ UNCHANGED << loadVars, formVars, session, sock, personalized_message,
                    exc, histVars, errors, summary, render_failed_at,
                    dropped_at >>

\* lines 87-94: login, then the progress widgets and the first iteration
Login ==
    /\ pc = "login"
    /\ \E ok \in BOOLEAN :
          IF ok
          THEN /\ authed' = TRUE
               /\ progress' = <<0, Len(recipients)>>
               /\ i' = 1
               /\ pc' = "render"
               /\ UNCHANGED << exc, login_rejected >>
          ELSE /\ login_rejected' = TRUE
               /\ exc' = "SMTPAuthenticationError"
               /\ pc' = "exit"
               /\ UNCHANGED << authed, progress, i >>
    /\ UNCHANGED << loadVars, formVars, session, sock, personalized_message,
                    histVars, errors, summary, render_failed_at, dropped_at >>

\* ------------------------------------------------------ template renderer
\* str() of a cell inside format(): a missing cell prints as nan
Str(v) == IF v = NaN THEN "nan" ELSE v

\* a substitution that leaves fields it does not know in the text
RECURSIVE Format_KeepUnknown(_, _, _)
Format_KeepUnknown(t, name, company) ==
    IF t = <<>> THEN [err |-> "none", out |-> <<>>]
    ELSE LET tok == Head(t)
             rest == Format_KeepUnknown(Tail(t), name, company)
         IN  [err |-> "none",
              out |-> << IF tok = "{name}" THEN Str(name)
                         ELSE IF tok = "{company}" THEN Str(company)
                         ELSE tok >> \o rest.out]

\* message_template.format(name=..., company=...), left to right; the first
\* field that cannot be resolved raises
RECURSIVE Format(_, _, _)
Format(t, name, company) ==
    IF t = <<>> THEN [err |-> "none", out |-> <<>>]
    ELSE LET tok == Head(t)
             rest == Format(Tail(t), name, company)
         IN  IF tok \in PositionalFields
             THEN [err |-> "IndexError", out |-> <<>>]
             ELSE IF tok \in NamedFields /\ tok \notin {"{name}", "{company}"}
             THEN [err |-> "KeyError", out |-> <<>>]
             ELSE IF rest.err # "none"
             THEN rest
             ELSE [err |-> "none",
                   out |-> << IF tok = "{name}" THEN Str(name)
                              ELSE IF tok = "{company}" THEN Str(company)
                              ELSE tok >> \o rest.out]

\* lines 94-107: take the next record and personalize the template
Render ==
    /\ pc = "render"
    /\ i \in 1..Len(recipients)
    /\ LET rec == recipients[i]
           r == Format(message_template, rec.Name, rec.Company)
       IN  IF r.err = "none"
           THEN /\ personalized_message' = r.out
                /\ pc' = "send"
                /\ UNCHANGED << errors, exc, render_failed_at >>
           ELSE IF r.err = "KeyError"
           THEN \* except KeyError: st.error(...); break
                /\ errors' = Append(errors, "placeholders")
                /\ render_failed_at' = i
                /\ pc' = "exit"
                /\ UNCHANGED << personalized_message, exc >>
           ELSE \* any other exception leaves the loop and the with-block
                /\ exc' = r.err
                /\ render_failed_at' = i
                /\ pc' = "exit"
                /\ UNCHANGED << personalized_message, errors >>
    /\ UNCHANGED << loadVars, formVars, session, sock, authed, i, histVars,
                    progress, summary, login_rejected, dropped_at >>

\* -------------------------------------------------------- message builder
\* lines 124-131
HtmlMessage(body, image) ==
    <<"<html><body>">> \o body
        \o (IF image # "None" THEN <<"<img src='cid:banner'>">> ELSE <<>>)
        \o <<"</body></html>">>

\* lines 110-140
BuildMessage(from, to, subj, body, image) ==
    [From |-> from, To |-> to, Subject |-> subj,
     plain |-> body,
     html |-> HtmlMessage(body, image),
     img |-> IF image # "None"
             THEN << [cid |-> "<banner>", filename |-> image] >>
             ELSE <<>>]

\* ------------------------------------------------------------------- send
\* what server.sendmail can do: on a dead connection it can only raise
SendResults(alive) ==
    IF alive THEN {"ok", "SMTPRecipientsRefused", "SMTPServerDisconnected"}
    ELSE {"SMTPServerDisconnected"}

\* a handler that lets every error of sendmail through
Caught_Nothing(err) == FALSE

\* a handler for refused recipients only: a lost connection escapes
Caught_OnlyRefused(err) == err = "SMTPRecipientsRefused"

\* line 146: except Exception catches whatever sendmail raises
Caught(err) == err \in {"SMTPRecipientsRefused", "SMTPServerDisconnected"}

\* a loop that stays on a recipient whose send failed
NextIndex_RetryFailed(idx, res) == IF res = "ok" THEN idx + 1 ELSE idx

\* line 94: enumerate moves to the next record whatever the send did
NextIndex(idx, res) == idx + 1

\* lines 110-150 and the loop test of line 94
SendMail ==
    /\ pc = "send"
    /\ LET rec == recipients[i]
           n == Len(recipients)
           msg == BuildMessage(sender_email, rec.Email, subject,
                               personalized_message, uploaded_image)
       IN  \E res \in SendResults(sock) :
             /\ attempts' = Append(attempts, [idx |-> i, rec |-> rec])
             /\ sock' = (sock /\ res # "SMTPServerDisconnected")
             /\ dropped_at' = IF sock /\ ~sock' THEN i ELSE dropped_at
             /\ delivered' = IF res = "ok" THEN Append(delivered, msg)
                             ELSE delivered
             /\ IF res = "ok" \/ Caught(res)
                THEN /\ outcomes' =
                          Append(outcomes, [idx |-> i, ok |-> res = "ok",
                                            err |-> res])
                     /\ status_text' =
                          IF res = "ok" THEN <<"Sent to", rec.Name, rec.Email>>
                          ELSE <<"Failed to", rec.Email, res>>
                     /\ progress' = <<i, n>>
                     /\ i' = NextIndex(i, res)
                     /\ pc' = IF i' <= n THEN "render" ELSE "exit"
                     /\ exc' = exc
                ELSE /\ exc' = res
                     /\ pc' = "exit"
                     /\ UNCHANGED << outcomes, status_text, progress, i >>
    /\ UNCHANGED << loadVars, formVars, session, authed, personalized_message,
                    errors, summary, login_rejected, render_failed_at >>

\* a session closed by hand after the loop only: an exception skips the close
ExitWith_LeakOnException ==
    /\ pc = "exit"
    /\ session = "SessionOpen"
    /\ session' = IF exc = "none" THEN "SessionClosed" ELSE session
    /\ sock' = IF exc = "none" THEN FALSE ELSE sock
    /\ exc' = exc
    /\ pc' = IF exc # "none" THEN "except" ELSE "success"
    /\ UNCHANGED << loadVars, formVars, authed, i, personalized_message,
                    histVars, progress, errors, summary, login_rejected,
                    render_failed_at, dropped_at >>

\* leaving the with-block of line 85: SMTP.__exit__ sends QUIT and closes the
\* connection; a QUIT that is answered badly raises, one that finds the
\* connection gone does not
ExitWith ==
    /\ pc = "exit"
    /\ session = "SessionOpen"
    /\ session' = "SessionClosed"
    /\ sock' = FALSE
    /\ \E quit_ok \in (IF sock THEN BOOLEAN ELSE {TRUE}) :
          /\ exc' = IF quit_ok THEN exc ELSE "SMTPResponseException"
          /\ pc' = IF exc' # "none" THEN "except" ELSE "success"
    /\ UNCHANGED << loadVars, formVars, authed, i, personalized_message,
                    histVars, progress, errors, summary, login_rejected,
                    render_failed_at, dropped_at >>

\* line 153
ReportSuccess ==
    /\ pc = "success"
    /\ summary' = << Len(recipients) >>
    /\ pc' = "done"
    /\ UNCHANGED << loadVars, formVars, session, sock, authed, i,
                    personalized_message, exc, histVars, progress, errors,
                    login_rejected, render_failed_at, dropped_at >>

\* lines 155-157
HandleError ==
    /\ pc = "except"
    /\ errors' = Append(errors, exc)
    /\ exc' = "none"
    /\ pc' = "done"
    /\ UNCHANGED << loadVars, formVars, session, sock, authed, i,
                    personalized_message, histVars, progress, summary,
                    login_rejected, render_failed_at, dropped_at >>

Next ==
    \/ UploadFile
    \/ LoadRecipients
    \/ Compose
    \/ ClickSend
    \/ Connect
    \/ StartTls
    \/ Login
    \/ Render
    \/ SendMail
    \/ ExitWith
    \/ ReportSuccess
    \/ HandleError

Spec == Init /\ [][Next]_vars

TypeOK ==
    /\ pc \in {"upload", "load", "compose", "button", "connect", "starttls",
               "login", "render", "send", "exit", "success", "except", "done"}
    /\ session \in {"NotStarted", "SessionOpen", "SessionClosed"}
    /\ Len(recipients) <= MaxRows

\* ------------------------------------------------------------- properties
N == Len(recipients)

\* the send pass was started and is over
PassFinished == pc = "done" /\ (session # "NotStarted" \/ errors # <<>>)

\* indices of the recipients whose send failed
FailedIdx == {k \in 1..Len(outcomes) : ~outcomes[k].ok}

\* C1: once the pass has left the with-block (to report success, to handle
\* an exception, or at its end) the session is closed and the connection is
\* down, on every path; the final reports are made with the session closed.
C1_SessionReleased ==
    /\ pc \in {"success", "except", "done"} =>
          (session # "SessionOpen" /\ ~sock)
    /\ summary # <<>> => session = "SessionClosed"
    /\ (PassFinished /\ session # "NotStarted") => session = "SessionClosed"

C1_Witness ==
    /\ pc = "done"
    /\ session = "SessionClosed"
    /\ errors = <<"SMTPAuthenticationError">>

\* C2: a rejected login aborts the pass before any message is sent: no
\* sendmail call, no per-recipient failure, no success summary, and the
\* finished pass shows exactly one error.
C2_AuthRejectedAborts ==
    login_rejected =>
        /\ attempts = <<>>
        /\ outcomes = <<>>
        /\ delivered = <<>>
        /\ summary = <<>>
        /\ pc = "done" => Len(errors) = 1

C2_Witness ==
    /\ login_rejected
    /\ pc = "done"
    /\ N >= 2
    /\ Len(errors) = 1

\* C3: a failed send is recorded for its recipient and the loop goes on:
\* every outcome belongs to the recipient at its position, and when the loop
\* has run with a template that renders, all N recipients were processed,
\* the sends that did not fail were delivered, and progress stands at N/N.
C3_DeliveryFailureNonFatal ==
    /\ \A k \in 1..Len(outcomes) :
          /\ outcomes[k].idx = k
          /\ attempts[k].rec = recipients[k]
    /\ (pc = "render" /\ FailedIdx # {}) => i = Len(outcomes) + 1
    /\ (authed /\ render_failed_at = 0
          /\ pc \in {"exit", "success", "except", "done"}) =>
          /\ Len(attempts) = N
          /\ Len(outcomes) = N
          /\ Len(delivered) = N - Cardinality(FailedIdx)
          /\ progress = <<N, N>>

C3_Witness ==
    /\ pc = "done"
    /\ N = 3
    /\ FailedIdx = {2}
    /\ outcomes[2].err = "SMTPRecipientsRefused"
    /\ Len(delivered) = 2
    /\ progress = <<3, 3>>

\* a template that names a field other than name and company
HasUnknownField(t) ==
    \E k \in 1..Len(t) :
        t[k] \in (NamedFields \cup PositionalFields) \ {"{name}", "{company}"}

\* C4: with an unrecognized placeholder in the template, rendering fails for
\* every record, and no send is attempted for the recipient on which it
\* first failed or for any later one.
C4_UnknownPlaceholderAborts ==
    /\ HasUnknownField(message_template) =>
          /\ \A k \in 1..N :
                Format(message_template, recipients[k].Name,
                       recipients[k].Company).err # "none"
          /\ attempts = <<>>
    /\ render_failed_at # 0 => Len(attempts) < render_failed_at

C4_Witness ==
    /\ pc = "done"
    /\ render_failed_at = 1
    /\ N >= 2
    /\ errors[1] = "placeholders"
    /\ attempts = <<>>

\* C5: the recipients for which sendmail was called are, in order, a prefix
\* of the loaded list: the k-th call is for the k-th record, none twice.
C5_AttemptsArePrefix ==
    /\ Len(attempts) <= N
    /\ \A k \in 1..Len(attempts) :
          /\ attempts[k].idx = k
          /\ attempts[k].rec = recipients[k]
    /\ pc = "send" => Len(attempts) = i - 1

C5_Witness ==
    /\ Len(attempts) = 3
    /\ FailedIdx = {1, 2}
    /\ pc = "done"

\* C6: a finished pass shows either the success summary or one error, not
\* both and not neither, and the count in the summary is the number of
\* recipients for which a send was attempted.
C6_SummaryXorError ==
    PassFinished =>
        /\ (summary # <<>>) # (errors # <<>>)
        /\ Len(errors) <= 1
        /\ summary # <<>> => summary[1] = Len(attempts)

\* C7 as claimed: after the connection is lost while recipient k's message
\* is submitted, no later recipient is attempted and the pass ends with one
\* error and no success summary.
C7_TransportFailureAborts ==
    dropped_at # 0 =>
        /\ Len(attempts) <= dropped_at
        /\ pc = "done" => (Len(errors) = 1 /\ summary = <<>>)

\* C7 amended: the loss of the connection while recipient k's message is
\* submitted is recorded as the failure of recipient k; the loop goes on to
\* every later recipient, each of which fails in turn, no exception reaches
\* the pass boundary, and the pass ends with the success summary over all
\* recipients and no error.
C7_TransportFailureContinues ==
    dropped_at # 0 =>
        /\ dropped_at \in 1..Len(outcomes)
        /\ ~outcomes[dropped_at].ok
        /\ outcomes[dropped_at].err = "SMTPServerDisconnected"
        /\ \A k \in dropped_at..Len(outcomes) : ~outcomes[k].ok
        /\ exc = "none"
        /\ errors = <<>>
        /\ pc = "done" => (Len(attempts) = N /\ summary = <<N>>)

C7_Witness ==
    /\ dropped_at = 1
    /\ N = 3
    /\ pc = "done"
    /\ Len(attempts) = 3

\* C8: a file without a Name or an Email column gives a validation error and
\* no records, and nothing is sent: the run ends without a session and
\* without a sendmail call.
C8_InvalidColumnsAbort ==
    (/\ pc \notin {"upload", "load"}
     /\ uploaded_file # NoFile
     /\ ~ ({"Name", "Email"} \subseteq uploaded_file.cols)) =>
        /\ load_error
        /\ recipients = <<>>
        /\ pc = "done"
        /\ session = "NotStarted"
        /\ attempts = <<>>
        /\ delivered = <<>>

C8_Witness ==
    /\ pc = "done"
    /\ load_error
    /\ uploaded_file.cols = {"Email", "Company"}
    /\ Len(uploaded_file.rows) = 2
    /\ uploaded_file.rows[1]["Email"] # NaN

\* rows of the file whose Email cell is filled
Present ==
    {k \in 1..Len(uploaded_file.rows) : uploaded_file.rows[k]["Email"] # NaN}

\* position among them
Rank(k) == Cardinality({j \in Present : j <= k})

\* C9: for a file with the required columns the loaded list is exactly the
\* rows with an Email, in row order, with their Name and Email; Company is
\* the row's cell, or the empty string when the file has no Company column.
C9_LoaderKeepsRowsWithEmail ==
    (/\ pc \notin {"upload", "load"}
     /\ uploaded_file # NoFile
     /\ {"Name", "Email"} \subseteq uploaded_file.cols) =>
        /\ Len(recipients) = Cardinality(Present)
        /\ \A k \in Present :
              LET r == recipients[Rank(k)]
                  row == uploaded_file.rows[k]
              IN  /\ r.Name = row["Name"]
                  /\ r.Email = row["Email"]
                  /\ r.Company = IF "Company" \in uploaded_file.cols
                                 THEN row["Company"] ELSE ""

C9_Witness ==
    /\ pc = "compose"
    /\ uploaded_file.cols = {"Name", "Email"}
    /\ Len(uploaded_file.rows) = 3
    /\ uploaded_file.rows[1]["Email"] = "b@x"
    /\ uploaded_file.rows[2]["Email"] = NaN
    /\ uploaded_file.rows[3]["Email"] = "b@x"
    /\ Len(recipients) = 2
    /\ recipients[1].Name = NaN
    /\ recipients[2].Company = ""

\* C10: sendmail is called only inside the open with-block and after login
\* has succeeded, a message is accepted only over a live connection, and
\* the session only ever goes NotStarted -> SessionOpen -> SessionClosed.
C10_SendOnlyInOpenSession ==
    [][ /\ attempts' # attempts =>
              /\ session = "SessionOpen"
              /\ session' = "SessionOpen"
              /\ authed
        /\ delivered' # delivered => sock
        /\ session' # session =>
              \/ session = "NotStarted" /\ session' = "SessionOpen"
              \/ session = "SessionOpen" /\ session' = "SessionClosed" ]_vars

C10_Witness ==
    /\ pc = "done"
    /\ session = "SessionClosed"
    /\ Len(delivered) = 2
    /\ summary # <<>>

====
